---------------------------- MODULE Spec2Model ----------------------------
(***************************************************************************)
(* RoamGenie admin dashboard (src/app.py) and its data-access layer        *)
(* (src/db_utils.py).                                                      *)
(*                                                                         *)
(* SpecApp    : one Streamlit session; every step is one script run of     *)
(*              app.py (session-state initialisation followed by main()).  *)
(* SpecConn   : every function of db_utils.py as the connection it opens,  *)
(*              the statements it executes on it and where it closes it.   *)
(* SpecContacts : log_enhanced_contact against the contacts table.         *)
(* SpecGrowth : get_weekly_growth_rate, query by query, with other         *)
(*              sessions logging searches and the clock running.           *)
(* SpecStats  : get_admin_summary_stats, query by query, with other        *)
(*              sessions logging searches and contacts.                    *)
(* SpecDbInfo : get_database_info and the Database Status panel that       *)
(*              shows its result.                                          *)
(***************************************************************************)
EXTENDS Integers, Sequences, FiniteSets, TLC

VARIABLES
    \* ---- src/app.py : st.session_state and the page of the last run ----
    admin_logged_in,    \* st.session_state.admin_logged_in
    admin_username,     \* st.session_state.admin_username  (Absent until a login succeeds)
    session_id,         \* st.session_state.session_id (Absent before the first run)
    selected_section,   \* widget state of the sidebar radio
    shown,              \* widgets and messages put on the page by the last run
    rendered,           \* sections rendered by the last run
    calls,              \* db_utils functions called by the last run
    event,              \* what triggered the last run
    outcome,            \* how the last run ended: "none", "returned", "rerun", "raised"
    \* ---- src/db_utils.py : connections of the data-access layer ----
    open_conns,         \* connections opened by get_db_connection() and not closed
    conn_last,          \* the last finished call: its statements, outcome, connection
    \* ---- the database ----
    now,                \* the database clock, in ticks
    contacts,           \* rows of table contacts
    contact_seq,        \* last value of the sequence behind contacts.id
    contact_calls,      \* number of log_enhanced_contact calls made
    contact_last,       \* arguments and result of the last log_enhanced_contact call
    flight_searches,    \* rows of table flight_searches (id, created_at)
    search_seq,         \* last value of the sequence behind flight_searches.id
    search_inserts,     \* number of rows the behaviour has inserted
    gw,                 \* the get_weekly_growth_rate call: position, counts, result
    st,                 \* the get_admin_summary_stats call: position, dict, result
    other_rows,         \* number of rows of tables events and system_metrics
    di,                 \* the last get_database_info call: what failed, the dict returned
    panel               \* the Database Status panel of the last System Management run

appVars == <<admin_logged_in, admin_username, session_id, selected_section,
             shown, rendered, calls, event, outcome>>

connVars == <<open_conns, conn_last>>

contactVars == <<contacts, contact_seq, contact_calls, contact_last>>

searchVars == <<flight_searches, search_seq, search_inserts>>

infoVars == <<other_rows, di, panel>>

vars == <<appVars, connVars, now, contactVars, searchVars, gw, st, infoVars>>

Absent == "<absent>"
None   == "<none>"

(***************************************************************************)
(* src/app.py                                                              *)
(***************************************************************************)

\* Admin credentials table, app.py:65-69
ADMIN_CREDENTIALS ==
    [u \in {"admin", "manager", "Webisdom"} |->
        IF u = "manager" THEN "manager@123" ELSE "admin@123"]

\* what a user may type into the two text inputs of the login form
Usernames == {"admin", "manager", "Webisdom", "guest"}
Passwords == {"admin@123", "manager@123", "letmein"}

\* values uuid.uuid4() may produce
SessionIds == {"uuid-1", "uuid-2"}

\* options of the sidebar radio, in the order of app.py:383-389
Sections == <<"Overview", "Analytics", "Customer", "Flight", "System">>
SectionSet == {Sections[i] : i \in 1..Len(Sections)}
DefaultSection == Sections[1]

\* db_utils functions the five sections call
SectionDataFns ==
    {"get_admin_summary_stats", "get_total_searches_count", "fetch_contacts",
     "get_recent_searches_count", "get_average_trip_duration",
     "get_budget_distribution", "get_class_distribution",
     "get_monthly_searches", "get_weekly_growth_rate",
     "get_flight_analytics", "get_top_destinations", "get_top_departures",
     "get_searches_over_time", "get_database_info", "fetch_all_searches"}

\* db_utils functions main() calls before the authentication check
InitFns == {"init_db", "initialize_admin_system"}

Ev(type, username, password, section) ==
    [type |-> type, username |-> username, password |-> password,
     section |-> section]

\* the calls of a try block: every call up to and including the one that raises
RECURSIVE CallsUntilRaise(_, _)
CallsUntilRaise(fns, raising) ==
    IF fns = <<>> THEN {}
    ELSE IF Head(fns) = raising THEN {Head(fns)}
    ELSE {Head(fns)} \cup CallsUntilRaise(Tail(fns), raising)

\* app.py:71-73
check_admin_credentials_anypw(username, password) ==
    username \in DOMAIN ADMIN_CREDENTIALS

check_admin_credentials(username, password) ==
    username \in DOMAIN ADMIN_CREDENTIALS /\ ADMIN_CREDENTIALS[username] = password

LoginResult(li, un, sh, ctl) ==
    [logged_in |-> li, username |-> un, shown |-> sh, ctl |-> ctl]

\* admin_login with the gate left open: the login branch returns True
admin_login_nogate(logged_in, username, ev) ==
    IF ~logged_in THEN
        IF ev.type = "submit" /\ check_admin_credentials(ev.username, ev.password)
        THEN LoginResult(TRUE, ev.username, {"login_form", "login_success"}, "rerun")
        ELSE LoginResult(FALSE, username,
                 {"login_form"} \cup (IF ev.type = "submit"
                                      THEN {"invalid_credentials"} ELSE {}),
                 "True")
    ELSE IF username = Absent THEN LoginResult(logged_in, username, {}, "raised")
    ELSE IF ev.type = "logout"
        THEN LoginResult(FALSE, username, {"logout_button"}, "rerun")
        ELSE LoginResult(TRUE, username, {"logout_button"}, "True")

\* admin_login whose Logout handler clears the flag but does not st.rerun()
admin_login_norerun(logged_in, username, ev) ==
    IF ~logged_in THEN
        IF ev.type = "submit" /\ check_admin_credentials(ev.username, ev.password)
        THEN LoginResult(TRUE, ev.username, {"login_form", "login_success"}, "rerun")
        ELSE LoginResult(FALSE, username,
                 {"login_form"} \cup (IF ev.type = "submit"
                                      THEN {"invalid_credentials"} ELSE {}),
                 "False")
    ELSE IF username = Absent THEN LoginResult(logged_in, username, {}, "raised")
    ELSE IF ev.type = "logout"
        THEN LoginResult(FALSE, username, {"logout_button"}, "True")
        ELSE LoginResult(TRUE, username, {"logout_button"}, "True")

\* app.py:75-109.  ctl is what happens to control: "False" / "True" are the
\* return values, "rerun" is st.rerun() stopping the script, "raised" is the
\* AttributeError of reading a session key that was never written (line 104).
admin_login(logged_in, username, ev) ==
    IF ~logged_in THEN
        IF ev.type = "submit" /\ check_admin_credentials(ev.username, ev.password)
        THEN LoginResult(TRUE, ev.username, {"login_form", "login_success"}, "rerun")
        ELSE LoginResult(FALSE, username,
                 {"login_form"} \cup (IF ev.type = "submit"
                                      THEN {"invalid_credentials"} ELSE {}),
                 "False")
    ELSE IF username = Absent THEN LoginResult(logged_in, username, {}, "raised")
    ELSE IF ev.type = "logout"
        THEN LoginResult(FALSE, username, {"logout_button"}, "rerun")
        ELSE LoginResult(TRUE, username, {"logout_button"}, "True")

SectionResult(secs, fns, sh, raised) ==
    [rendered |-> secs, calls |-> fns, shown |-> sh, raised |-> raised]

\* app.py:111-175.  raising is the db_utils function whose call raises in this
\* run (None when none does).
display_overview_metrics(raising) ==
    SectionResult({"Overview"},
        CallsUntilRaise(<<"get_admin_summary_stats", "get_total_searches_count",
                          "fetch_contacts", "get_recent_searches_count",
                          "get_average_trip_duration">>, raising)
        \cup {"get_budget_distribution", "get_class_distribution",
              "get_monthly_searches", "get_weekly_growth_rate"},
        {}, FALSE)

\* app.py:177-245
display_analytics_charts(raising, flight_empty) ==
    IF raising = "get_flight_analytics"
    THEN SectionResult({"Analytics"}, {"get_flight_analytics"}, {}, TRUE)
    ELSE IF flight_empty
    THEN SectionResult({"Analytics"}, {"get_flight_analytics"}, {}, FALSE)
    ELSE SectionResult({"Analytics"},
            {"get_flight_analytics", "get_top_destinations",
             "get_top_departures", "get_searches_over_time"}, {}, FALSE)

\* app.py:247-310
display_customer_management(raising) ==
    SectionResult({"Customer"}, {"fetch_contacts"}, {}, raising = "fetch_contacts")

\* app.py:399-406
display_flight_management(raising) ==
    SectionResult({"Flight"}, {"get_flight_analytics"}, {},
                  raising = "get_flight_analytics")

\* app.py:312-363
display_system_management(ev) ==
    SectionResult({"System"},
        {"get_database_info"}
        \cup (IF ev.type = "export_search" THEN {"fetch_all_searches"} ELSE {})
        \cup (IF ev.type = "export_contact" THEN {"fetch_contacts"} ELSE {}),
        {"export_search_button", "export_contact_button"}, FALSE)

\* the if/elif chain with the Flight Management branch missing
display_selected_noflight(selected, ev, raising, flight_empty) ==
    IF selected = "Overview" THEN display_overview_metrics(raising)
    ELSE IF selected = "Analytics" THEN display_analytics_charts(raising, flight_empty)
    ELSE IF selected = "Customer" THEN display_customer_management(raising)
    ELSE IF selected = "System" THEN display_system_management(ev)
    ELSE SectionResult({}, {}, {}, FALSE)

\* app.py:392-408, the if/elif chain on selected_section
display_selected(selected, ev, raising, flight_empty) ==
    IF selected = "Overview" THEN display_overview_metrics(raising)
    ELSE IF selected = "Analytics" THEN display_analytics_charts(raising, flight_empty)
    ELSE IF selected = "Customer" THEN display_customer_management(raising)
    ELSE IF selected = "Flight" THEN display_flight_management(raising)
    ELSE IF selected = "System" THEN display_system_management(ev)
    ELSE SectionResult({}, {}, {}, FALSE)

\* app.py:367-372: init_db() and initialize_admin_system() inside one try
InitCalls(raising) == CallsUntilRaise(<<"init_db", "initialize_admin_system">>, raising)

\* app.py:381: the value st.radio returns in this run
RadioValue(ev) == IF ev.type = "select" THEN ev.section ELSE selected_section

\* One script run: app.py:59-62 followed by main() (app.py:365-408).  Lines
\* 59-60 write admin_logged_in only when the key is missing, which is the
\* case in the first run alone; Init holds the value they write.
\*   ev           the trigger of the run
\*   raising      the db_utils function whose call raises in this run
\*   flight_empty whether get_flight_analytics() returns an empty frame
\*   uuid         the value uuid.uuid4() would return
main(ev, raising, flight_empty, uuid) ==
    LET sid   == IF session_id = Absent THEN uuid ELSE session_id
        login == admin_login(admin_logged_in, admin_username, ev)
        sel   == RadioValue(ev)
        sec   == display_selected(sel, ev, raising, flight_empty)
    IN  /\ UNCHANGED <<infoVars, connVars, now, contactVars, searchVars, gw, st>>
        /\ event' = ev
        /\ session_id' = sid
        /\ admin_logged_in' = login.logged_in
        /\ admin_username' = login.username
        /\ IF login.ctl = "True"
           THEN /\ rendered' = sec.rendered
                /\ calls' = InitCalls(raising) \cup sec.calls
                /\ shown' = login.shown \cup {"section_radio"} \cup sec.shown
                /\ selected_section' = sel
                /\ outcome' = IF sec.raised THEN "raised" ELSE "returned"
           ELSE /\ rendered' = {}
                /\ calls' = InitCalls(raising)
                /\ shown' = login.shown
                \* the radio is not drawn in this run: the framework may keep
                \* or drop its widget state
                /\ selected_section' \in {selected_section, DefaultSection}
                /\ outcome' = IF login.ctl = "False" THEN "returned" ELSE login.ctl

RunInputs(ev) ==
    \E raising \in SectionDataFns \cup InitFns \cup {None} :
    \E flight_empty \in BOOLEAN :
    \E uuid \in SessionIds :
        main(ev, raising, flight_empty, uuid)

\* first load, st.rerun(), or any interaction that carries no handled widget
Rerun == RunInputs(Ev("rerun", None, None, None))

\* the login form is submitted
SubmitLogin ==
    /\ outcome # "rerun"
    /\ "login_form" \in shown
    /\ \E u \in Usernames : \E p \in Passwords :
          RunInputs(Ev("submit", u, p, None))

\* the Logout button is pressed
PressLogout ==
    /\ outcome # "rerun"
    /\ "logout_button" \in shown
    /\ RunInputs(Ev("logout", None, None, None))

\* another option of the sidebar radio is chosen
SelectSection ==
    /\ outcome # "rerun"
    /\ "section_radio" \in shown
    /\ \E s \in SectionSet \ {selected_section} :
          RunInputs(Ev("select", None, None, s))

\* one of the two export buttons of System Management is pressed
PressExport ==
    /\ outcome # "rerun"
    /\ "export_search_button" \in shown
    /\ \E t \in {"export_search", "export_contact"} :
          RunInputs(Ev(t, None, None, None))

(***************************************************************************)
(* src/db_utils.py : connection and statement shape of every function      *)
(***************************************************************************)

\* the most connections the model lets the layer leave open
MaxOpenConns == 2

\* tables of the public schema, db_utils.py:24-82
DbTables == <<"flight_searches", "contacts", "events", "system_metrics">>

\* functions of db_utils.py that call get_db_connection() themselves
DataAccessFns ==
    {"init_db", "log_flight_search", "log_event", "get_total_searches_count",
     "get_top_destinations", "get_top_departures", "get_searches_over_time",
     "fetch_recent_searches", "fetch_contacts", "get_recent_searches_count",
     "get_average_trip_duration", "get_budget_distribution",
     "get_class_distribution", "get_monthly_searches",
     "get_weekly_growth_rate", "fetch_all_searches",
     "generate_analytics_summary", "log_enhanced_flight_search",
     "log_enhanced_contact", "get_flight_analytics",
     "get_admin_summary_stats", "get_database_info"}

\* exceptions a statement may raise
DbErrors == {"IntegrityError", "OperationalError"}

\* get_weekly_growth_rate reduced to its first query
FnStatements_onequery(fn) ==
    CASE fn = "init_db"                    -> <<25, 44, 60, 73>>
      [] fn = "log_flight_search"          -> <<95>>
      [] fn = "log_event"                  -> <<111>>
      [] fn = "get_total_searches_count"   -> <<124>>
      [] fn = "get_top_destinations"       -> <<142>>
      [] fn = "get_top_departures"         -> <<158>>
      [] fn = "get_searches_over_time"     -> <<174>>
      [] fn = "fetch_recent_searches"      -> <<188>>
      [] fn = "fetch_contacts"             -> <<203>>
      [] fn = "get_recent_searches_count"  -> <<218>>
      [] fn = "get_average_trip_duration"  -> <<232>>
      [] fn = "get_budget_distribution"    -> <<243>>
      [] fn = "get_class_distribution"     -> <<260>>
      [] fn = "get_monthly_searches"       -> <<277>>
      [] fn = "get_weekly_growth_rate"     -> <<292>>
      [] fn = "fetch_all_searches"         -> <<333>>
      [] fn = "generate_analytics_summary" -> <<345, 350, 355, 367, 379, 392>>
      [] fn = "log_enhanced_flight_search" -> <<412>>
      [] fn = "log_enhanced_contact"       -> <<429>>
      [] fn = "get_flight_analytics"       -> <<466>>
      [] fn = "get_admin_summary_stats"    -> <<486, 489, 493, 499, 506, 517>>
      [] fn = "get_database_info"          ->
            <<555>> \o [i \in 1..Len(DbTables) |-> 566] \o <<573>>

\* The statements a call executes when none of them raises, each named by the
\* line of db_utils.py that executes it (cursor.execute / pd.read_sql_query).
FnStatements(fn) ==
    CASE fn = "init_db"                    -> <<25, 44, 60, 73>>
      [] fn = "log_flight_search"          -> <<95>>
      [] fn = "log_event"                  -> <<111>>
      [] fn = "get_total_searches_count"   -> <<124>>
      [] fn = "get_top_destinations"       -> <<142>>
      [] fn = "get_top_departures"         -> <<158>>
      [] fn = "get_searches_over_time"     -> <<174>>
      [] fn = "fetch_recent_searches"      -> <<188>>
      [] fn = "fetch_contacts"             -> <<203>>
      [] fn = "get_recent_searches_count"  -> <<218>>
      [] fn = "get_average_trip_duration"  -> <<232>>
      [] fn = "get_budget_distribution"    -> <<243>>
      [] fn = "get_class_distribution"     -> <<260>>
      [] fn = "get_monthly_searches"       -> <<277>>
      [] fn = "get_weekly_growth_rate"     -> <<292, 299>>
      [] fn = "fetch_all_searches"         -> <<333>>
      [] fn = "generate_analytics_summary" -> <<345, 350, 355, 367, 379, 392>>
      [] fn = "log_enhanced_flight_search" -> <<412>>
      [] fn = "log_enhanced_contact"       -> <<429>>
      [] fn = "get_flight_analytics"       -> <<466>>
      [] fn = "get_admin_summary_stats"    -> <<486, 489, 493, 499, 506, 517>>
      [] fn = "get_database_info"          ->
            <<555>> \o [i \in 1..Len(DbTables) |-> 566] \o <<573>>

\* the statement of log_enhanced_contact's except branch, db_utils.py:439
FnHandlerStatements(fn) ==
    IF fn = "log_enhanced_contact" THEN <<439>> ELSE <<>>

\* What the function does with an exception raised by its k-th statement:
\*   "propagate"  no handler: the exception leaves the function at once
\*   "swallow"    an except clause catches it and the function goes on to
\*                conn.close() and return
\*   "continue"   an inner except clause catches it and the loop goes on
\*   "handler"    the except psycopg2.IntegrityError branch runs
\*   "finally"    the exception leaves the function through finally: conn.close()
OnError(fn, k, err) ==
    CASE fn \in {"fetch_contacts", "get_flight_analytics",
                 "get_admin_summary_stats"} -> "swallow"
      [] fn = "get_database_info" ->
            IF 1 < k /\ k < Len(FnStatements(fn)) THEN "continue" ELSE "swallow"
      [] fn = "log_enhanced_contact" ->
            IF err = "IntegrityError" THEN "handler" ELSE "finally"
      [] OTHER -> "propagate"

CallRecord(fn, executed, out, opened, closed, failed) ==
    [fn |-> fn, executed |-> executed, outcome |-> out,
     opened |-> opened, closed |-> closed, failed |-> failed]

\* One call of fn on an open connection.  failAt is the position of the
\* statement that raises err (0: none raises); handlerFails tells whether the
\* statement of the except branch raises too.
RunFn(fn, failAt, err, handlerFails) ==
    LET stmts == FnStatements(fn)
        upTo  == SubSeq(stmts, 1, failAt)
        how   == OnError(fn, failAt, err)
    IN  IF failAt = 0
        THEN CallRecord(fn, stmts, "returned", TRUE, TRUE, FALSE)
        ELSE CASE how = "propagate" -> CallRecord(fn, upTo, "raised", TRUE, FALSE, TRUE)
               [] how = "swallow"   -> CallRecord(fn, upTo, "returned", TRUE, TRUE, TRUE)
               [] how = "continue"  -> CallRecord(fn, stmts, "returned", TRUE, TRUE, TRUE)
               [] how = "finally"   -> CallRecord(fn, upTo, "raised", TRUE, TRUE, TRUE)
               [] how = "handler"   ->
                     CallRecord(fn, upTo \o FnHandlerStatements(fn),
                                IF handlerFails THEN "raised" ELSE "returned",
                                TRUE, TRUE, TRUE)

\* the connections the call leaves open
Leaked(rec) == IF rec.opened /\ ~rec.closed THEN 1 ELSE 0

\* A call of one data-access function.  connects is whether
\* get_db_connection() (db_utils.py:8-17) returns a connection or raises.
CallFn ==
    /\ open_conns < MaxOpenConns
    /\ \E fn \in DataAccessFns :
       \E connects \in BOOLEAN :
       \E failAt \in 0..Len(FnStatements(fn)) :
       \E err \in DbErrors :
       \E handlerFails \in BOOLEAN :
          LET rec == IF connects
                     THEN RunFn(fn, failAt, err, handlerFails)
                     ELSE CallRecord(fn, <<>>, "raised", FALSE, FALSE, TRUE)
          IN  /\ conn_last' = rec
              /\ open_conns' = open_conns + Leaked(rec)
    /\ UNCHANGED <<infoVars, appVars, now, contactVars, searchVars, gw, st>>

\* db_utils.py:535-542: init_db() then log_event(), any exception swallowed.
\* The function opens no connection itself; the record holds the statements
\* of the two calls it makes.
initialize_admin_system ==
    /\ open_conns < MaxOpenConns
    /\ \E connects \in BOOLEAN :
       \E failAt1 \in 0..Len(FnStatements("init_db")) :
       \E failAt2 \in 0..Len(FnStatements("log_event")) :
       \E err \in DbErrors :
          LET r1 == IF connects
                    THEN RunFn("init_db", failAt1, err, FALSE)
                    ELSE CallRecord("init_db", <<>>, "raised", FALSE, FALSE, TRUE)
              r2 == RunFn("log_event", failAt2, err, FALSE)
          IN  IF r1.outcome = "raised"
              THEN /\ conn_last' = CallRecord("initialize_admin_system",
                                       r1.executed, "returned", FALSE, FALSE, TRUE)
                   /\ open_conns' = open_conns + Leaked(r1)
              ELSE /\ conn_last' = CallRecord("initialize_admin_system",
                                       r1.executed \o r2.executed, "returned",
                                       FALSE, FALSE, r2.failed)
                   /\ open_conns' = open_conns + Leaked(r2)
    /\ UNCHANGED <<infoVars, appVars, now, contactVars, searchVars, gw, st>>

(***************************************************************************)
(* src/db_utils.py : the contacts table and log_enhanced_contact           *)
(***************************************************************************)

\* SQL NULL, Python None
NULL == "<null>"

\* ticks of the clock per day
TicksPerDay == 2
Day == TicksPerDay

\* the clock at the start, and how far the model lets it run
NowBase  == 14 * Day + 1
MaxTicks == 1

\* the most log_enhanced_contact calls of a behaviour
MaxContactCalls == 2

\* argument tuples <<firstName, secondName, email, phone, source>>
ContactInputs ==
    { <<"Ann", "Lee", "a@x.io", "555", "web_form">>,
      <<"Bob", "Ray", "a@x.io", "777", "import">>,
      <<"Ann", "Lee", "b@x.io", NULL,  "web_form">>,
      <<NULL,  "Lee", "a@x.io", "555", "web_form">>,
      <<"Ann", NULL,  "b@x.io", "555", "import">>,
      <<"Ann", "Lee", NULL,     "555", "web_form">> }

ContactRow(id, firstName, secondName, email, phone, source, t) ==
    [id |-> id, firstName |-> firstName, secondName |-> secondName,
     email |-> email, phone |-> phone, source |-> source,
     created_at |-> t, last_interaction |-> t]

SqlResult(ok, table) == [ok |-> ok, table |-> table]

\* INSERT INTO contacts (db_utils.py:429-432) under the constraints of the
\* table (db_utils.py:45-56): NOT NULL on firstName, secondName, email and
\* UNIQUE on email.  ok = FALSE is psycopg2.IntegrityError.
InsertContact(table, id, firstName, secondName, email, phone, source, t) ==
    IF firstName = NULL \/ secondName = NULL \/ email = NULL
    THEN SqlResult(FALSE, table)
    ELSE IF \E r \in table : r.email = email
    THEN SqlResult(FALSE, table)
    ELSE SqlResult(TRUE, table \cup
             {ContactRow(id, firstName, secondName, email, phone, source, t)})

\* the UPDATE without phone in its SET list
UpdateContact_nophone(table, firstName, secondName, phone, email, t) ==
    LET matched == {r \in table : email # NULL /\ r.email = email}
    IN  IF matched # {} /\ (firstName = NULL \/ secondName = NULL)
        THEN SqlResult(FALSE, table)
        ELSE SqlResult(TRUE, (table \ matched) \cup
                 {[r EXCEPT !.firstName = firstName, !.secondName = secondName,
                            !.last_interaction = t] : r \in matched})

\* UPDATE contacts SET ... WHERE email=%s (db_utils.py:439-443).  email = NULL
\* matches no row; a NULL written to a NOT NULL column of a matched row is
\* psycopg2.IntegrityError.
UpdateContact(table, firstName, secondName, phone, email, t) ==
    LET matched == {r \in table : email # NULL /\ r.email = email}
    IN  IF matched # {} /\ (firstName = NULL \/ secondName = NULL)
        THEN SqlResult(FALSE, table)
        ELSE SqlResult(TRUE, (table \ matched) \cup
                 {[r EXCEPT !.firstName = firstName, !.secondName = secondName,
                            !.phone = phone, !.last_interaction = t] : r \in matched})

ContactCall(n, firstName, secondName, email, phone, source, result) ==
    [n |-> n, firstName |-> firstName, secondName |-> secondName,
     email |-> email, phone |-> phone, source |-> source, result |-> result]

\* db_utils.py:423-447.  fault names the statement at which the server or the
\* connection fails with an error that is not an IntegrityError (None: none).
\* result is "True" / "False" for the two return values and the name of the
\* exception when the call raises.
log_enhanced_contact(firstName, secondName, email, phone, source, fault) ==
    LET id  == contact_seq + 1
        ins == InsertContact(contacts, id, firstName, secondName, email,
                             phone, source, now)
        upd == UpdateContact(contacts, firstName, secondName, phone, email, now)
        res == IF fault = "insert" THEN "OperationalError"
               ELSE IF ins.ok THEN "True"
               ELSE IF fault = "update" THEN "OperationalError"
               ELSE IF upd.ok THEN "False"
               ELSE "IntegrityError"
    IN  /\ contact_calls < MaxContactCalls
        /\ contact_calls' = contact_calls + 1
        /\ contact_seq' = IF fault = "insert" THEN contact_seq ELSE id
        /\ contacts' = IF res = "True" THEN ins.table
                       ELSE IF res = "False" THEN upd.table
                       ELSE contacts
        /\ contact_last' = ContactCall(contact_calls + 1, firstName, secondName,
                                       email, phone, source, res)
        /\ UNCHANGED <<infoVars, appVars, connVars, now, searchVars, gw, st>>

LogContact ==
    \E a \in ContactInputs : \E fault \in {None, "insert", "update"} :
        log_enhanced_contact(a[1], a[2], a[3], a[4], a[5], fault)

\* time passes
Tick ==
    /\ now < NowBase + MaxTicks
    /\ now' = now + 1
    /\ UNCHANGED <<infoVars, appVars, connVars, contactVars, searchVars, gw, st>>

InitClock == now = NowBase

InitContacts ==
    /\ contacts = {}
    /\ contact_seq = 0
    /\ contact_calls = 0
    /\ contact_last = ContactCall(0, NULL, NULL, NULL, NULL, NULL, "none")

(***************************************************************************)
(* src/db_utils.py : flight_searches and get_weekly_growth_rate            *)
(***************************************************************************)

\* the most rows a behaviour inserts into flight_searches
MaxSearchInserts == 1

SearchRow(id, t, user_session_id) ==
    [id |-> id, created_at |-> t, user_session_id |-> user_session_id]

\* CURRENT_DATE: midnight of the day of t
CURRENT_DATE(t) == t - (t % Day)

\* rows a database may hold when the model starts: one at each edge of the
\* windows of get_weekly_growth_rate as seen from NowBase
StoredSearches ==
    LET today == CURRENT_DATE(NowBase)
    IN  { SearchRow(1, today - 14 * Day - 1, NULL),
          SearchRow(2, today - 14 * Day, NULL),
          SearchRow(3, today - 7 * Day - 1, NULL),
          SearchRow(4, today - 7 * Day, NULL),
          SearchRow(5, today - 1, NULL),
          SearchRow(6, NowBase, NULL) }

\* INSERT INTO flight_searches (db_utils.py:95-101, 412-418); created_at is
\* DEFAULT CURRENT_TIMESTAMP (db_utils.py:37).  valid is whether the NOT NULL
\* columns origin, destination, departure_date, return_date all got a value;
\* ok = FALSE is psycopg2.IntegrityError.
InsertSearch(table, id, valid, t, user_session_id) ==
    IF valid THEN SqlResult(TRUE, table \cup {SearchRow(id, t, user_session_id)})
    ELSE SqlResult(FALSE, table)

\* db_utils.py:89-104: the row has no user_session_id
log_flight_search ==
    /\ search_inserts < MaxSearchInserts
    /\ \E valid \in BOOLEAN :
          flight_searches' =
              InsertSearch(flight_searches, search_seq + 1, valid, now, NULL).table
    /\ search_inserts' = search_inserts + 1
    /\ search_seq' = search_seq + 1
    /\ UNCHANGED <<infoVars, appVars, connVars, now, contactVars, gw, st>>

\* db_utils.py:405-421
log_enhanced_flight_search ==
    /\ search_inserts < MaxSearchInserts
    /\ \E valid \in BOOLEAN : \E user_session_id \in {"uuid-1"} :
          flight_searches' =
              InsertSearch(flight_searches, search_seq + 1, valid, now,
                           user_session_id).table
    /\ search_inserts' = search_inserts + 1
    /\ search_seq' = search_seq + 1
    /\ UNCHANGED <<infoVars, appVars, connVars, now, contactVars, gw, st>>

\* WHERE created_at >= CURRENT_DATE - INTERVAL '7 days' (db_utils.py:294)
InThisWeek(created_at, today) == created_at >= today - 7 * Day

\* the last-week window closed at its upper end
InLastWeek_closed(created_at, today) ==
    /\ created_at >= today - 14 * Day
    /\ created_at <= today - 7 * Day

\* WHERE created_at >= CURRENT_DATE - INTERVAL '14 days'
\*   AND created_at < CURRENT_DATE - INTERVAL '7 days' (db_utils.py:301-302)
InLastWeek(created_at, today) ==
    /\ created_at >= today - 14 * Day
    /\ created_at < today - 7 * Day

\* a Python number as the fraction num / den
Number(num, den) == [num |-> num, den |-> den]

\* db_utils.py:308-312
GrowthRate(this_week, last_week) ==
    IF last_week = 0 THEN Number(0, 1)
    ELSE Number((this_week - last_week) * 100, last_week)

GrowthCall(pc, today, snap1, counted1, snap2, counted2, ret) ==
    [pc |-> pc, today |-> today,
     snap_this |-> snap1, counted_this |-> counted1,
     snap_last |-> snap2, counted_last |-> counted2, ret |-> ret]

GrowthIdle == GrowthCall("idle", 0, {}, {}, {}, {}, Number(0, 1))

\* db_utils.py:288-296: connect and run the first query.  The connection is
\* not in autocommit mode, so this statement opens the transaction and
\* CURRENT_DATE is the date of its start for both queries.  snap_* is the
\* table as the query saw it, counted_* the rows its COUNT(*) counted.
growth_this_week ==
    /\ gw.pc # "this_week"
    /\ \E fails \in BOOLEAN :
          IF fails
          THEN gw' = [GrowthIdle EXCEPT !.pc = "raised"]
          ELSE LET today == CURRENT_DATE(now)
                   rows  == {r \in flight_searches : InThisWeek(r.created_at, today)}
               IN  gw' = GrowthCall("this_week", today, flight_searches, rows,
                                    {}, {}, Number(0, 1))
    /\ UNCHANGED <<infoVars, appVars, connVars, now, contactVars, searchVars, st>>

\* db_utils.py:298-312: the second query, conn.close() and the result
growth_last_week ==
    /\ gw.pc = "this_week"
    /\ \E fails \in BOOLEAN :
          IF fails
          THEN gw' = [GrowthIdle EXCEPT !.pc = "raised"]
          ELSE LET rows == {r \in flight_searches : InLastWeek(r.created_at, gw.today)}
               IN  gw' = [gw EXCEPT !.pc = "returned",
                                    !.snap_last = flight_searches,
                                    !.counted_last = rows,
                                    !.ret = GrowthRate(Cardinality(gw.counted_this),
                                                       Cardinality(rows))]
    /\ UNCHANGED <<infoVars, appVars, connVars, now, contactVars, searchVars, st>>

InitSearches ==
    /\ flight_searches = {}
    /\ search_seq = 0
    /\ search_inserts = 0

InitGrowthCall == gw = GrowthIdle

\* a database that already holds searches of the last weeks
InitStoredSearches ==
    /\ flight_searches \in SUBSET StoredSearches
    /\ search_seq = Cardinality(StoredSearches)
    /\ search_inserts = 0

(***************************************************************************)
(* src/db_utils.py : get_admin_summary_stats                               *)
(***************************************************************************)

\* results the top-destinations query may give (destination, count); the
\* destination column is not part of the modelled rows
TopDestinationResults == { <<>>, << <<"GOA", 2>>, <<"DXB", 1>> >> }

\* results AVG(duration_days) may give: SQL NULL when no row has a duration,
\* else a value, held in hundredths of a day
AvgResult(is_null, hundredths) == [is_null |-> is_null, value |-> hundredths]
AvgDurationResults ==
    {AvgResult(TRUE, 0), AvgResult(FALSE, 0), AvgResult(FALSE, 325),
     AvgResult(FALSE, 333)}

\* round(x, 1) of a value given in hundredths, as tenths: to nearest, a tie
\* (x.25, x.75, exact in binary) to the even tenth
RoundTenths(h) ==
    LET q == h \div 10
        r == h % 10
    IN  IF r < 5 THEN q
        ELSE IF r > 5 THEN q + 1
        ELSE IF q % 2 = 0 THEN q ELSE q + 1

\* db_utils.py:519, in tenths of a day
AvgTripDuration(avg) ==
    IF avg.is_null \/ avg.value = 0 THEN 0 ELSE RoundTenths(avg.value)

\* db_utils.py:523-530
DefaultStats ==
    [total_searches |-> 0, total_contacts |-> 0, searches_24h |-> 0,
     contacts_24h |-> 0, top_destinations |-> <<>>, avg_trip_duration |-> 0]

\* an except handler that keeps what the queries before the failure stored
StatsOnError_keep(stats) == stats @@ DefaultStats

\* db_utils.py:521-530: the except handler replaces the dict
StatsOnError(stats) == DefaultStats

\* WHERE created_at >= CURRENT_TIMESTAMP - INTERVAL '1 day' (db_utils.py:495, 501)
InLastDay(created_at, txn_time) == created_at >= txn_time - Day

StatsCall(pc, txn_time, stats, failed_at) ==
    [pc |-> pc, txn_time |-> txn_time, stats |-> stats, failed_at |-> failed_at]

StatsIdle == StatsCall("idle", 0, <<>>, None)

\* One query of the try block: cursor.execute raises, the handler runs and
\* the function closes the connection and returns; or stats[key] = value and
\* the function goes on to the query named next ("returned" after the last:
\* conn.close() and return).
StatsStep(key, value, next, txn_time) ==
    \E fails \in BOOLEAN :
        st' = IF fails
              THEN StatsCall("returned", txn_time, StatsOnError(st.stats), key)
              ELSE StatsCall(next, txn_time, (key :> value) @@ st.stats, None)

\* db_utils.py:479-482: get_db_connection(), conn.cursor(), stats = {}
stats_connect ==
    /\ st.pc \in {"idle", "returned", "raised"}
    /\ \E connects \in BOOLEAN :
          st' = IF connects THEN StatsCall("total_searches", 0, <<>>, None)
                ELSE StatsCall("raised", 0, <<>>, None)
    /\ UNCHANGED <<infoVars, appVars, connVars, now, contactVars, searchVars, gw>>

\* a first query that counts only the searches of the last day
stats_total_searches_recent ==
    /\ st.pc = "total_searches"
    /\ StatsStep("total_searches",
                 Cardinality({r \in flight_searches :
                                 InLastDay(r.created_at, now)}),
                 "total_contacts", now)
    /\ UNCHANGED <<infoVars, appVars, connVars, now, contactVars, searchVars, gw>>

\* db_utils.py:486-487; the first statement opens the transaction, whose
\* start time is CURRENT_TIMESTAMP for all six queries
stats_total_searches ==
    /\ st.pc = "total_searches"
    /\ StatsStep("total_searches", Cardinality(flight_searches),
                 "total_contacts", now)
    /\ UNCHANGED <<infoVars, appVars, connVars, now, contactVars, searchVars, gw>>

\* db_utils.py:489-490
stats_total_contacts ==
    /\ st.pc = "total_contacts"
    /\ StatsStep("total_contacts", Cardinality(contacts),
                 "searches_24h", st.txn_time)
    /\ UNCHANGED <<infoVars, appVars, connVars, now, contactVars, searchVars, gw>>

\* db_utils.py:493-497
stats_searches_24h ==
    /\ st.pc = "searches_24h"
    /\ StatsStep("searches_24h",
                 Cardinality({r \in flight_searches :
                                 InLastDay(r.created_at, st.txn_time)}),
                 "contacts_24h", st.txn_time)
    /\ UNCHANGED <<infoVars, appVars, connVars, now, contactVars, searchVars, gw>>

\* db_utils.py:499-503
stats_contacts_24h ==
    /\ st.pc = "contacts_24h"
    /\ StatsStep("contacts_24h",
                 Cardinality({r \in contacts :
                                 InLastDay(r.created_at, st.txn_time)}),
                 "top_destinations", st.txn_time)
    /\ UNCHANGED <<infoVars, appVars, connVars, now, contactVars, searchVars, gw>>

\* db_utils.py:506-514
stats_top_destinations ==
    /\ st.pc = "top_destinations"
    /\ \E top \in TopDestinationResults :
          StatsStep("top_destinations", top, "avg_trip_duration", st.txn_time)
    /\ UNCHANGED <<infoVars, appVars, connVars, now, contactVars, searchVars, gw>>

\* db_utils.py:517-519 and, past the try block, 532-533
stats_avg_trip_duration ==
    /\ st.pc = "avg_trip_duration"
    /\ \E avg \in AvgDurationResults :
          StatsStep("avg_trip_duration", AvgTripDuration(avg), "returned",
                    st.txn_time)
    /\ UNCHANGED <<infoVars, appVars, connVars, now, contactVars, searchVars, gw>>

\* contacts other sessions store while the dashboard reads
OtherSessionContacts ==
    { <<"Ann", "Lee", "a@x.io", "555", "web_form">> }

\* log_enhanced_contact called by another session
LogContactOther ==
    \E a \in OtherSessionContacts :
        log_enhanced_contact(a[1], a[2], a[3], a[4], a[5], None)

InitStatsCall == st = StatsIdle

\* a database that holds one search older than a day and one of the last day
InitStatsSearches ==
    /\ flight_searches \in SUBSET {r \in StoredSearches : r.id \in {4, 5}}
    /\ search_seq = Cardinality(StoredSearches)
    /\ search_inserts = 0

(***************************************************************************)
(* src/db_utils.py : get_database_info; src/app.py : Database Status panel *)
(***************************************************************************)

\* the most rows a behaviour adds to table events
MaxEvents == 1

DbTableSet == {DbTables[i] : i \in 1..Len(DbTables)}

\* strings pg_size_pretty(pg_database_size(...)) may return
DatabaseSizes == {"9513 kB", "12 MB"}

\* the rows each table of the schema holds
RealCounts ==
    [t \in DbTableSet |->
        CASE t = "flight_searches" -> Cardinality(flight_searches)
          [] t = "contacts"        -> Cardinality(contacts)
          [] OTHER                 -> other_rows[t]]

\* db_utils.py:578
DefaultInfo ==
    [tables |-> <<>>, table_counts |-> <<>>, database_size |-> "Unknown"]

\* db_utils.py:546-581 on an open connection.  The statements are numbered as
\* in FnStatements: 1 lists the tables, 2 .. Len(DbTables)+1 count them, the
\* last asks for the size; failAt is the first one the server rejects (0:
\* none).  The connection is not in autocommit mode: a rejected statement
\* aborts the transaction and every later statement of the call raises
\* InFailedSqlTransaction.  The except of the loop (db_utils.py:568-569) turns
\* a raising count into 0; the outer except (db_utils.py:576-578) replaces
\* the dict.
get_database_info(real, failAt, size) ==
    LET T == Len(DbTables)
        aborted_at(k) == failAt # 0 /\ failAt <= k
        tables_fail == aborted_at(1)
        table_counts ==
            [t \in DbTableSet |->
                LET i == CHOOSE j \in 1..T : DbTables[j] = t
                IN  IF aborted_at(i + 1) THEN 0 ELSE real[t]]
        size_fails == aborted_at(T + 2)
    IN  IF tables_fail \/ size_fails
        THEN DefaultInfo
        ELSE [tables |-> DbTables, table_counts |-> table_counts,
              database_size |-> size]

\* dict.get(key, default)
DictGet(d, key, default) == IF key \in DOMAIN d THEN d[key] ELSE default

InfoCall(out, failAt, real, size, info) ==
    [outcome |-> out, failAt |-> failAt, real |-> real, size |-> size,
     info |-> info]

Panel(status, file_size, lines) ==
    [status |-> status, file_size |-> file_size, lines |-> lines]

\* app.py:318-328: the Database Status panel.  file_size is what the
\* "File Size" line shows before " MB", lines holds one entry per
\* "<table>: <count> records" line.
DatabaseStatus(info) ==
    Panel("connected", DictGet(info, "file_size_mb", "Unknown"),
          DictGet(info, "table_counts", <<>>))

\* One rendering of the panel.  connects is whether get_db_connection()
\* returns a connection; when it raises, get_database_info raises and the
\* panel shows the error (app.py:327-328).
display_database_status ==
    /\ \E connects \in BOOLEAN :
       \E failAt \in 0..(Len(DbTables) + 2) :
       \E size \in DatabaseSizes :
          IF connects
          THEN LET info == get_database_info(RealCounts, failAt, size)
               IN  /\ di' = InfoCall("returned", failAt, RealCounts, size, info)
                   /\ panel' = DatabaseStatus(info)
          ELSE /\ di' = InfoCall("raised", 0, RealCounts, size, DefaultInfo)
               /\ panel' = Panel("error", "Unknown", <<>>)
    /\ UNCHANGED <<appVars, connVars, now, contactVars, searchVars, gw, st,
                   other_rows>>

\* db_utils.py:106-117; valid is whether event_type (NOT NULL) got a value
log_event ==
    /\ other_rows["events"] < MaxEvents
    /\ \E valid \in BOOLEAN :
          other_rows' = IF valid
                        THEN [other_rows EXCEPT !["events"] = @ + 1]
                        ELSE other_rows
    /\ UNCHANGED <<appVars, connVars, now, contactVars, searchVars, gw, st,
                   di, panel>>

InitInfoCall ==
    /\ di = InfoCall("none", 0, [t \in DbTableSet |-> 0], "Unknown", DefaultInfo)
    /\ panel = Panel("none", "Unknown", <<>>)

InitOtherRows == other_rows = [t \in {"events", "system_metrics"} |-> 0]

\* a database whose events and system_metrics tables may hold a row
InitStoredOtherRows ==
    other_rows \in [{"events", "system_metrics"} -> 0..1]

InitApp ==
    /\ admin_logged_in = FALSE
    /\ admin_username = Absent
    /\ session_id = Absent
    /\ selected_section = DefaultSection
    /\ shown = {}
    /\ rendered = {}
    /\ calls = {}
    /\ event = Ev("rerun", None, None, None)
    /\ outcome = "none"

InitConn ==
    /\ open_conns = 0
    /\ conn_last = CallRecord(None, <<>>, "none", FALSE, FALSE, FALSE)

NextApp ==
    \/ Rerun
    \/ SubmitLogin
    \/ PressLogout
    \/ SelectSection
    \/ PressExport

NextConn ==
    \/ CallFn
    \/ initialize_admin_system

NextContacts ==
    \/ LogContact
    \/ Tick

NextGrowth ==
    \/ growth_this_week
    \/ growth_last_week
    \/ log_flight_search
    \/ log_enhanced_flight_search
    \/ Tick

NextStats ==
    \/ stats_connect
    \/ stats_total_searches
    \/ stats_total_contacts
    \/ stats_searches_24h
    \/ stats_contacts_24h
    \/ stats_top_destinations
    \/ stats_avg_trip_duration
    \/ log_flight_search
    \/ log_enhanced_flight_search
    \/ LogContactOther
    \/ Tick

NextDbInfo ==
    \/ display_database_status
    \/ log_event
    \/ log_flight_search
    \/ LogContactOther

Init == InitApp /\ InitConn /\ InitClock /\ InitContacts /\ InitSearches
        /\ InitGrowthCall /\ InitStatsCall /\ InitInfoCall /\ InitOtherRows

InitStats == InitApp /\ InitConn /\ InitClock /\ InitContacts
             /\ InitStatsSearches /\ InitGrowthCall /\ InitStatsCall
             /\ InitInfoCall /\ InitOtherRows

InitDbInfo == InitApp /\ InitConn /\ InitClock /\ InitContacts
              /\ InitStatsSearches /\ InitGrowthCall /\ InitStatsCall
              /\ InitInfoCall /\ InitStoredOtherRows

InitGrowth == InitApp /\ InitConn /\ InitClock /\ InitContacts
              /\ InitStoredSearches /\ InitGrowthCall /\ InitStatsCall
              /\ InitInfoCall /\ InitOtherRows

SpecApp == Init /\ [][NextApp]_vars

SpecConn == Init /\ [][NextConn]_vars

SpecContacts == Init /\ [][NextContacts]_vars

SpecGrowth == InitGrowth /\ [][NextGrowth]_vars

SpecStats == InitStats /\ [][NextStats]_vars

SpecDbInfo == InitDbInfo /\ [][NextDbInfo]_vars

(***************************************************************************)
(* Properties of the dashboard (SpecApp)                                   *)
(***************************************************************************)

\* a (username, password) pair of the hard-coded table, read off the table itself
ValidPair(u, p) == \E k \in DOMAIN ADMIN_CREDENTIALS : k = u /\ ADMIN_CREDENTIALS[k] = p

\* C1: a script run that starts with admin_logged_in false renders none of
\* the five sections and calls none of their data-fetching functions.
C1_LoginGated ==
    [][(admin_logged_in = FALSE) =>
          (rendered' = {} /\ calls' \cap SectionDataFns = {})]_vars

\* a refused login: the run returned with no section and no section data call
C1_Witness ==
    /\ event.type = "submit"
    /\ outcome = "returned"
    /\ admin_logged_in = FALSE
    /\ rendered = {}
    /\ "init_db" \in calls

\* C2: a submission of the login form sets admin_logged_in iff the submitted
\* pair is a row of ADMIN_CREDENTIALS; any other pair leaves admin_logged_in
\* false, leaves admin_username unwritten and shows the login form again.
C2_LoginIffValidPair ==
    [][(event'.type = "submit") =>
          /\ admin_logged_in' = ValidPair(event'.username, event'.password)
          /\ ValidPair(event'.username, event'.password)
                => admin_username' = event'.username
          /\ ~ValidPair(event'.username, event'.password)
                => /\ admin_logged_in' = FALSE
                   /\ admin_username' = admin_username
                   /\ "login_form" \in shown'
                   /\ outcome' = "returned"]_vars

\* a known username with another user's password was refused
C2_Witness ==
    /\ event.type = "submit"
    /\ event.username = "manager"
    /\ event.password = "admin@123"
    /\ admin_logged_in = FALSE
    /\ "invalid_credentials" \in shown

\* C3: the run that handles a Logout press ends with admin_logged_in false
\* and no section rendered, and from a state with admin_logged_in false and
\* no section on the page every run keeps both unless it is a login form
\* submission with a valid pair.
C3_LogoutHolds ==
    [][/\ (event'.type = "logout")
              => (admin_logged_in' = FALSE /\ rendered' = {})
       /\ (/\ admin_logged_in = FALSE
           /\ ~(event'.type = "submit"
                /\ ValidPair(event'.username, event'.password)))
              => (admin_logged_in' = FALSE /\ rendered' = {})]_vars

\* the run that handled a Logout press
C3_Witness ==
    /\ event.type = "logout"
    /\ outcome = "rerun"
    /\ admin_logged_in = FALSE
    /\ admin_username # Absent
    /\ rendered = {}

\* C4 as stated: every run that starts with the admin logged in renders
\* exactly the section selected in the sidebar radio.
C4_Original ==
    [][(admin_logged_in = TRUE) => (rendered' = {selected_section'})]_vars

\* C4 amended: every run that starts with the admin logged in and does not
\* handle a Logout press renders exactly one section, the one selected in the
\* sidebar radio; a change of the selection changes none of admin_logged_in,
\* admin_username, session_id.
C4_SelectedSectionRendered ==
    [][/\ (admin_logged_in = TRUE /\ event'.type # "logout")
              => /\ Cardinality(rendered') = 1
                 /\ rendered' = {selected_section'}
                 /\ (event'.type = "select" => selected_section' = event'.section)
       /\ (event'.type = "select")
              => UNCHANGED <<admin_logged_in, admin_username, session_id>>]_vars

\* the radio was moved to Flight Management and that section was rendered
C4_Witness ==
    /\ event.type = "select"
    /\ event.section = "Flight"
    /\ admin_logged_in = TRUE
    /\ rendered = {"Flight"}


(***************************************************************************)
(* Properties of the connection handling (SpecConn)                        *)
(***************************************************************************)

\* C5: every data-access function closes the connection it opened before
\* control leaves it, also when a query raises; after any sequence of calls
\* no connection opened by the layer remains open.
C5_Original ==
    /\ conn_last.opened => conn_last.closed
    /\ open_conns = 0

\* functions whose body holds a single query
SingleQueryFns ==
    {"log_flight_search", "log_event", "get_total_searches_count",
     "get_top_destinations", "get_top_departures", "get_searches_over_time",
     "fetch_recent_searches", "fetch_contacts", "get_recent_searches_count",
     "get_average_trip_duration", "get_budget_distribution",
     "get_class_distribution", "get_monthly_searches", "fetch_all_searches",
     "log_enhanced_flight_search", "get_flight_analytics"}

\* C6 as stated: a call executes exactly one SQL statement on its connection.
C6_Original ==
    conn_last.opened => Len(conn_last.executed) = 1

\* C6 amended: a call executes exactly one statement in the single-query
\* functions only; when no statement fails get_weekly_growth_rate executes 2,
\* init_db 4, generate_analytics_summary and get_admin_summary_stats 6 and
\* get_database_info 2 plus one per table; log_enhanced_contact executes 1
\* statement when its INSERT is accepted and 2 when it raises IntegrityError.
C6_StatementsPerCall ==
    conn_last.opened =>
        LET n  == Len(conn_last.executed)
            fn == conn_last.fn
        IN  /\ n >= 1
            /\ fn \in SingleQueryFns => n = 1
            /\ ~conn_last.failed =>
                  /\ fn = "get_weekly_growth_rate" => n = 2
                  /\ fn = "init_db" => n = 4
                  /\ fn = "generate_analytics_summary" => n = 6
                  /\ fn = "get_admin_summary_stats" => n = 6
                  /\ fn = "get_database_info" => n = 2 + Len(DbTables)
                  /\ fn = "log_enhanced_contact" => n = 1
            /\ fn = "log_enhanced_contact" =>
                  /\ n \in {1, 2}
                  /\ n = 2 => conn_last.executed = <<429, 439>>

\* get_weekly_growth_rate returned after both of its queries
C6_Witness ==
    /\ conn_last.fn = "get_weekly_growth_rate"
    /\ conn_last.outcome = "returned"
    /\ conn_last.executed = <<292, 299>>
    /\ conn_last.closed


(***************************************************************************)
(* Properties of log_enhanced_contact (SpecContacts)                       *)
(***************************************************************************)

\* C7: for non-null firstName, secondName and email a call that returns
\* leaves exactly one row with that email, holding the firstName, secondName
\* and phone of the call; it returns True iff no row had that email before;
\* when it returns False the row keeps its id, source and created_at and the
\* number of rows is unchanged.  No two rows ever share an email.
C7_UpsertOnEmail ==
    [][(contact_calls' # contact_calls) =>
        LET a      == contact_last'
            before == {r \in contacts  : r.email = a.email}
            after  == {r \in contacts' : r.email = a.email}
        IN  /\ \A r1, r2 \in contacts' : r1.email = r2.email => r1 = r2
            /\ (a.firstName # NULL /\ a.secondName # NULL /\ a.email # NULL) =>
                  /\ a.result # "IntegrityError"
                  /\ a.result \in {"True", "False"} =>
                        /\ Cardinality(after) = 1
                        /\ \A r \in after : /\ r.firstName = a.firstName
                                            /\ r.secondName = a.secondName
                                            /\ r.phone = a.phone
                        /\ (a.result = "True") <=> (before = {})
                        /\ (a.result = "False") =>
                              /\ Cardinality(contacts') = Cardinality(contacts)
                              /\ \A r \in after : \A b \in before :
                                    /\ r.id = b.id
                                    /\ r.source = b.source
                                    /\ r.created_at = b.created_at]_vars

\* a later call with the same email and other values returned False and
\* rewrote the row stored by an earlier call
C7_Witness ==
    /\ contact_last.result = "False"
    /\ contact_last.firstName = "Bob"
    /\ \E r \in contacts :
          /\ r.email = contact_last.email
          /\ r.firstName = "Bob"
          /\ r.phone = "777"
          /\ r.source = "web_form"
          /\ r.created_at < now
          /\ r.last_interaction = now

\* C8: log_enhanced_contact returns False only when a row with the given
\* email existed before the call, and no exception leaves its
\* duplicate-handling branch.
C8_Original ==
    [][(contact_calls' # contact_calls) =>
        /\ (contact_last'.result = "False")
              => \E r \in contacts : r.email = contact_last'.email
        /\ contact_last'.result # "IntegrityError"]_vars


(***************************************************************************)
(* Properties of get_weekly_growth_rate (SpecGrowth)                       *)
(***************************************************************************)

\* C9: get_weekly_growth_rate returns 0 when no search lies in
\* [today-14 days, today-7 days), whatever the count of the current window;
\* otherwise ((this_week - last_week) / last_week) * 100 with this_week the
\* rows of created_at >= today-7 days.  The two windows are disjoint and
\* every row of created_at >= today-14 days (of the rows in the table when
\* the first query runs) is counted in exactly one of them.
C9_WeeklyGrowth ==
    (gw.pc = "returned") =>
        LET today == gw.today
            this  == Cardinality({r \in gw.snap_this :
                                      r.created_at >= today - 7 * Day})
            last  == Cardinality({r \in gw.snap_last :
                                      /\ r.created_at >= today - 14 * Day
                                      /\ r.created_at <  today - 7 * Day})
        IN  /\ today % Day = 0 /\ today <= now
            /\ (last = 0) => (gw.ret.num = 0 /\ gw.ret.den = 1)
            /\ (last # 0) => /\ gw.ret.den # 0
                             /\ gw.ret.num * last = (this - last) * 100 * gw.ret.den
            /\ gw.counted_this \cap gw.counted_last = {}
            /\ \A r \in gw.snap_this :
                  (r.created_at >= today - 14 * Day) <=>
                      (r \in gw.counted_this \cup gw.counted_last)

\* a call returned a growth of -50%: two searches last week, among them one at
\* the first instant of the window, and one this week at its first instant
C9_Witness ==
    /\ gw.pc = "returned"
    /\ Cardinality(gw.counted_last) = 2
    /\ Cardinality(gw.counted_this) = 1
    /\ \E r \in gw.counted_this : r.created_at = gw.today - 7 * Day
    /\ \E r \in gw.counted_last : r.created_at = gw.today - 14 * Day
    /\ gw.ret = Number(-100, 2)


(***************************************************************************)
(* Properties of get_admin_summary_stats (SpecStats)                       *)
(***************************************************************************)

\* C10: once its connection is open get_admin_summary_stats never raises and
\* returns a dict with exactly the six keys; if one of its queries fails,
\* every value is the default (0, or the empty list for top_destinations),
\* also the values of the queries that had succeeded.
C10_StatsAllOrDefault ==
    /\ (st.pc = "raised") => (st.stats = <<>> /\ st.failed_at = None)
    /\ (st.pc = "returned") =>
          /\ DOMAIN st.stats = {"total_searches", "total_contacts",
                                "searches_24h", "contacts_24h",
                                "top_destinations", "avg_trip_duration"}
          /\ (st.failed_at # None) =>
                /\ st.stats["total_searches"] = 0
                /\ st.stats["total_contacts"] = 0
                /\ st.stats["searches_24h"] = 0
                /\ st.stats["contacts_24h"] = 0
                /\ st.stats["top_destinations"] = <<>>
                /\ st.stats["avg_trip_duration"] = 0

\* the fourth query failed after three had stored counts of a table that
\* held rows from the start, and the dict returned holds the defaults
C10_Witness ==
    /\ st.pc = "returned"
    /\ st.failed_at = "contacts_24h"
    /\ search_inserts = 0
    /\ Cardinality(flight_searches) = 2
    /\ st.stats = DefaultStats


\* C13 as stated: in every dict get_admin_summary_stats returns, whatever
\* other sessions insert between its queries, searches_24h <= total_searches
\* and contacts_24h <= total_contacts.
C13_Original ==
    (st.pc = "returned") =>
        /\ st.stats["searches_24h"] <= st.stats["total_searches"]
        /\ st.stats["contacts_24h"] <= st.stats["total_contacts"]

\* C13: each query of get_admin_summary_stats reads the table as it is when
\* that query runs: total_searches and total_contacts are the row counts at
\* their queries, and searches_24h (contacts_24h) exceeds total_searches
\* (total_contacts) by at most the number of rows other sessions inserted
\* into the table since the total was counted; with no such insert,
\* searches_24h <= total_searches and contacts_24h <= total_contacts.
C13_ConsistentUpToInserts ==
    [][ /\ (st.pc = "total_searches" /\ st'.pc = "total_contacts") =>
              st'.stats["total_searches"] = Cardinality(flight_searches)
        /\ (st.pc = "total_contacts" /\ st'.pc = "searches_24h") =>
              st'.stats["total_contacts"] = Cardinality(contacts)
        /\ (st.pc = "searches_24h" /\ st'.pc = "contacts_24h") =>
              LET inserted == Cardinality(flight_searches)
                                  - st.stats["total_searches"]
              IN  /\ inserted >= 0
                  /\ st'.stats["searches_24h"]
                        <= st'.stats["total_searches"] + inserted
        /\ (st.pc = "contacts_24h" /\ st'.pc = "top_destinations") =>
              LET inserted == Cardinality(contacts)
                                  - st.stats["total_contacts"]
              IN  /\ inserted >= 0
                  /\ st'.stats["contacts_24h"]
                        <= st'.stats["total_contacts"] + inserted
      ]_vars

\* the table held a search older than a day when total_searches was counted,
\* another session logged a search, and the dict returned has searches_24h
\* one above total_searches
C13_Witness ==
    /\ st.pc = "returned"
    /\ st.failed_at = None
    /\ search_inserts = 1
    /\ st.stats["total_searches"] = 1
    /\ st.stats["searches_24h"] = 2
    /\ Cardinality(flight_searches) = 2

(***************************************************************************)
(* Properties of get_database_info and its panel (SpecDbInfo)              *)
(***************************************************************************)

\* C11: when the count of one table fails in get_database_info, the dict
\* returned still lists every table and the database size, that table's
\* count is 0 and every other table's count is its real row count.
C11_Original ==
    (di.outcome = "returned" /\ di.failAt \in 2..(Len(DbTables) + 1)) =>
        /\ di.info.tables = DbTables
        /\ di.info.database_size = di.size
        /\ DOMAIN di.info.table_counts = DbTableSet
        /\ \A i \in 1..Len(DbTables) :
              di.info.table_counts[DbTables[i]] =
                  IF i + 1 = di.failAt THEN 0 ELSE di.real[DbTables[i]]

\* C12: when get_database_info succeeds, the Database Status panel shows the
\* database size it returned and one line per table with that table's count.
C12_Original ==
    (di.outcome = "returned" /\ di.failAt = 0) =>
        /\ panel.status = "connected"
        /\ panel.lines = di.info.table_counts
        /\ panel.file_size = di.info.database_size

=============================================================================
